---- MODULE Spec2Model ----
(***************************************************************************)
(* Model of the nexora-rs storage engine: the byte-exact file layout       *)
(* (models/file_layout.rs), the little-endian codec (utils/encoding) and   *)
(* the engine that opens, loads, reads and extends the file                *)
(* (storage_engine/engine.rs).                                             *)
(*                                                                         *)
(* A u64 is kept as four 16-bit limbs, most significant first, so that     *)
(* every value of the type (the all-ones sentinel included) is exact.      *)
(* A file is a length plus the byte ranges written to it; bytes never      *)
(* written read as zero (a sparse file).                                   *)
(***************************************************************************)
EXTENDS Integers, Sequences, FiniteSets, TLC

\* e bound to a name: With(e, LAMBDA x : body) is body with x standing for e
With(e, F(_)) == F(e)

\* ------------------------------------------------------------------ u64

Limb == 256 * 256

\* a small natural number as a u64
U64Of(n) == << 0, 0, n \div Limb, n % Limb >>

\* the value of a u64 known to be below 2^31
U64Small(v) == v[1] = 0 /\ v[2] = 0 /\ v[3] < 32768

U64ToNat(v) == v[3] * Limb + v[4]

\* u64 comparison a < b
U64Less(a, b) ==
    \/ a[1] < b[1]
    \/ a[1] = b[1] /\ a[2] < b[2]
    \/ a[1] = b[1] /\ a[2] = b[2] /\ a[3] < b[3]
    \/ a[1] = b[1] /\ a[2] = b[2] /\ a[3] = b[3] /\ a[4] < b[4]

U64Leq(a, b) == a = b \/ U64Less(a, b)

\* wrapping u64 addition
U64Add(a, b) ==
    LET s4 == a[4] + b[4]
        s3 == a[3] + b[3] + s4 \div Limb
        s2 == a[2] + b[2] + s3 \div Limb
        s1 == a[1] + b[1] + s2 \div Limb
    IN  << s1 % Limb, s2 % Limb, s3 % Limb, s4 % Limb >>

\* a + b overflows 64 bits
U64AddOverflows(a, b) ==
    LET s4 == a[4] + b[4]
        s3 == a[3] + b[3] + s4 \div Limb
        s2 == a[2] + b[2] + s3 \div Limb
        s1 == a[1] + b[1] + s2 \div Limb
    IN  s1 >= Limb

\* wrapping u64 subtraction
U64Sub(a, b) ==
    LET d4 == a[4] - b[4]
        d3 == a[3] - b[3] - (IF d4 < 0 THEN 1 ELSE 0)
        d2 == a[2] - b[2] - (IF d3 < 0 THEN 1 ELSE 0)
        d1 == a[1] - b[1] - (IF d2 < 0 THEN 1 ELSE 0)
    IN  << d1 % Limb, d2 % Limb, d3 % Limb, d4 % Limb >>

\* ------------------------------------------------------------ constants

FILE_HEADER_MAGIC == << 78, 88, 82, 118, 48, 0 >>

PAGE_SIZE == 4096

MAX_ITEMS == 254

HEADER_RESERVED == 4070

FOOTER_RESERVED == 3968

INVALID_OFFSET == << 65535, 65535, 65535, 65535 >>

ZeroPage == [i \in 1..PAGE_SIZE |-> 0]

\* n zero bytes, n <= 4096
Zeros(n) == SubSeq(ZeroPage, 1, n)

RECURSIVE ZeroFrom(_, _, _)
\* the least n in lo..hi such that bytes holds only zeros after its first n
ZeroFrom(bytes, lo, hi) ==
    IF lo = hi THEN lo
    ELSE With((lo + hi) \div 2, LAMBDA mid :
             IF SubSeq(bytes, mid + 1, Len(bytes)) = Zeros(Len(bytes) - mid)
             THEN ZeroFrom(bytes, lo, mid)
             ELSE ZeroFrom(bytes, mid + 1, hi))

Trimmed(bytes) == SubSeq(bytes, 1, ZeroFrom(bytes, 0, Len(bytes)))

\* A reserved array of a structure is kept without the zeros it ends with;
\* Array(r, n) is the whole array of n bytes.
Reserved(bytes) == Trimmed(bytes)

Array(r, n) == r \o Zeros(n - Len(r))

\* ---------------------------------------------------------- byte codec

to_le_bytes_u64(v) ==
    << v[4] % 256, v[4] \div 256, v[3] % 256, v[3] \div 256,
       v[2] % 256, v[2] \div 256, v[1] % 256, v[1] \div 256 >>

from_le_bytes_u64(b) ==
    << b[8] * 256 + b[7], b[6] * 256 + b[5], b[4] * 256 + b[3], b[2] * 256 + b[1] >>

to_le_bytes_u16(v) == << v % 256, v \div 256 >>

from_le_bytes_u16(b) == b[2] * 256 + b[1]

\* buf[offset .. offset+8) decoded, offset counted from 0
read_u64_le(buf, offset) == from_le_bytes_u64(SubSeq(buf, offset + 1, offset + 8))

\* --------------------------------------------------------------- header

NexoraHeaderDefault ==
    [ footer_offset |-> INVALID_OFFSET,
      created_unix  |-> U64Of(0),
      magic         |-> FILE_HEADER_MAGIC,
      version       |-> 0,
      flags         |-> 0,
      _reserved     |-> Reserved(Zeros(HEADER_RESERVED)) ]

\* only the five printable bytes compared
verify_magic_prefix(raw_magic) == SubSeq(raw_magic, 1, 5) = SubSeq(FILE_HEADER_MAGIC, 1, 5)

verify_magic(raw_magic) == raw_magic = FILE_HEADER_MAGIC

NexoraHeader_deserialize(raw) ==
    [ footer_offset |-> from_le_bytes_u64(SubSeq(raw, 1, 8)),
      created_unix  |-> from_le_bytes_u64(SubSeq(raw, 9, 16)),
      magic         |-> SubSeq(raw, 17, 22),
      version       |-> from_le_bytes_u16(SubSeq(raw, 23, 24)),
      flags         |-> from_le_bytes_u16(SubSeq(raw, 25, 26)),
      _reserved     |-> Reserved(SubSeq(raw, 27, PAGE_SIZE)) ]

\* --------------------------------------------------------------- footer

OffsetMetadataTableDefault == [ nb_total_items |-> U64Of(0), base_chunk_offset |-> U64Of(0) ]

parse_offset_table(bytes) ==
    [ nb_total_items    |-> from_le_bytes_u64(SubSeq(bytes, 1, 8)),
      base_chunk_offset |-> from_le_bytes_u64(SubSeq(bytes, 9, 16)) ]

NexoraFooter_deserialize(raw) ==
    [ name_table_offset        |-> parse_offset_table(SubSeq(raw, 1, 16)),
      node_schema_offset       |-> parse_offset_table(SubSeq(raw, 17, 32)),
      edge_schema_offset       |-> parse_offset_table(SubSeq(raw, 33, 48)),
      schema_properties_offset |-> parse_offset_table(SubSeq(raw, 49, 64)),
      metadata_offset          |-> parse_offset_table(SubSeq(raw, 65, 80)),
      indices_offset           |-> parse_offset_table(SubSeq(raw, 81, 96)),
      nodes_offset             |-> parse_offset_table(SubSeq(raw, 97, 112)),
      edges_offset             |-> parse_offset_table(SubSeq(raw, 113, 128)),
      _reserved                |-> Reserved(SubSeq(raw, 129, PAGE_SIZE)) ]

\* ---------------------------------------------------------------- chunk

OffsetItemDefault == [ id |-> U64Of(0), offset |-> INVALID_OFFSET ]

OffsetTableChunkDefault ==
    [ nb_items       |-> 0,
      _pad0          |-> Zeros(7),
      previous_chunk |-> INVALID_OFFSET,
      next_chunk     |-> INVALID_OFFSET,
      offset_items   |-> [i \in 1..MAX_ITEMS |-> OffsetItemDefault],
      _reserved      |-> Zeros(8) ]

\* the 16 bytes of one item: id then offset
OffsetItemBytes(item) == to_le_bytes_u64(item.id) \o to_le_bytes_u64(item.offset)

RECURSIVE ItemsBytes(_, _, _)
\* the bytes of items[lo..hi], by halving
ItemsBytes(items, lo, hi) ==
    IF lo > hi THEN << >>
    ELSE IF lo = hi THEN OffsetItemBytes(items[lo])
    ELSE LET mid == (lo + hi) \div 2
         IN  ItemsBytes(items, lo, mid) \o ItemsBytes(items, mid + 1, hi)

OffsetTableChunk_serialize(chunk) ==
    << chunk.nb_items >> \o chunk._pad0
        \o to_le_bytes_u64(chunk.previous_chunk)
        \o to_le_bytes_u64(chunk.next_chunk)
        \o ItemsBytes(chunk.offset_items, 1, MAX_ITEMS)
        \o chunk._reserved

\* the padding after nb_items skipped, not copied
OffsetTableChunk_deserialize_skip_pad(buf) ==
    [ nb_items       |-> buf[1],
      _pad0          |-> Zeros(7),
      previous_chunk |-> read_u64_le(buf, 8),
      next_chunk     |-> read_u64_le(buf, 16),
      offset_items   |-> [i \in 1..MAX_ITEMS |->
                             [ id     |-> read_u64_le(buf, 24 + 16 * (i - 1)),
                               offset |-> read_u64_le(buf, 32 + 16 * (i - 1)) ]],
      _reserved      |-> SubSeq(buf, PAGE_SIZE - 7, PAGE_SIZE) ]

OffsetTableChunk_deserialize(buf) ==
    [ nb_items       |-> buf[1],
      _pad0          |-> SubSeq(buf, 2, 8),
      previous_chunk |-> read_u64_le(buf, 8),
      next_chunk     |-> read_u64_le(buf, 16),
      offset_items   |-> [i \in 1..MAX_ITEMS |->
                             [ id     |-> read_u64_le(buf, 24 + 16 * (i - 1)),
                               offset |-> read_u64_le(buf, 32 + 16 * (i - 1)) ]],
      _reserved      |-> SubSeq(buf, PAGE_SIZE - 7, PAGE_SIZE) ]

\* ----------------------------------------------------------- NexoraFile

\* section pages counted from the header page instead of after it
DefaultBase_from_header(i) == U64Of((i - 1) * PAGE_SIZE)

\* the page offset of section number i (1..8) in the default layout
DefaultBase(i) == U64Of(i * PAGE_SIZE)

NexoraFileDefault ==
    [ header |-> [ NexoraHeaderDefault EXCEPT !.footer_offset = U64Of(9 * PAGE_SIZE) ],
      footer |->
        [ name_table_offset        |-> [ nb_total_items |-> U64Of(0), base_chunk_offset |-> DefaultBase(1) ],
          node_schema_offset       |-> [ nb_total_items |-> U64Of(0), base_chunk_offset |-> DefaultBase(2) ],
          edge_schema_offset       |-> [ nb_total_items |-> U64Of(0), base_chunk_offset |-> DefaultBase(3) ],
          schema_properties_offset |-> [ nb_total_items |-> U64Of(0), base_chunk_offset |-> DefaultBase(4) ],
          metadata_offset          |-> [ nb_total_items |-> U64Of(0), base_chunk_offset |-> DefaultBase(5) ],
          indices_offset           |-> [ nb_total_items |-> U64Of(0), base_chunk_offset |-> DefaultBase(6) ],
          nodes_offset             |-> [ nb_total_items |-> U64Of(0), base_chunk_offset |-> DefaultBase(7) ],
          edges_offset             |-> [ nb_total_items |-> U64Of(0), base_chunk_offset |-> DefaultBase(8) ],
          _reserved                |-> Reserved(Zeros(FOOTER_RESERVED)) ] ]

\* the header page as NexoraFile::serialize writes it
HeaderBytes(h) ==
    to_le_bytes_u64(h.footer_offset) \o to_le_bytes_u64(h.created_unix)
        \o h.magic \o to_le_bytes_u16(h.version) \o to_le_bytes_u16(h.flags)
        \o Array(h._reserved, HEADER_RESERVED)

write_offset_table(ot) == to_le_bytes_u64(ot.nb_total_items) \o to_le_bytes_u64(ot.base_chunk_offset)

\* the footer page as NexoraFile::serialize writes it
FooterBytes(f) ==
    write_offset_table(f.name_table_offset) \o write_offset_table(f.node_schema_offset)
        \o write_offset_table(f.edge_schema_offset)
        \o write_offset_table(f.schema_properties_offset)
        \o write_offset_table(f.metadata_offset) \o write_offset_table(f.indices_offset)
        \o write_offset_table(f.nodes_offset) \o write_offset_table(f.edges_offset)
        \o Array(f._reserved, FOOTER_RESERVED)

EmptyChunkPage == OffsetTableChunk_serialize(OffsetTableChunkDefault)

NexoraFile_serialize(nf) ==
    HeaderBytes(nf.header)
        \o EmptyChunkPage \o EmptyChunkPage \o EmptyChunkPage \o EmptyChunkPage
        \o EmptyChunkPage \o EmptyChunkPage \o EmptyChunkPage \o EmptyChunkPage
        \o FooterBytes(nf.footer)

\* ----------------------------------------------------------------- file

\* no file at the path
NoFile == [ size |-> << >>, segs |-> << >> ]

\* the greatest member of a non-empty set of numbers
Latest(S) == CHOOSE x \in S : \A y \in S : y <= x

\* A written range is kept as [at, len, data]: len bytes starting at `at`, of
\* which data holds all but the zeros the range ends with (len <= PAGE_SIZE).
Range(at, bytes) == [ at |-> at, len |-> Len(bytes), data |-> Trimmed(bytes) ]

\* bytes [lo, hi] of a written range
Part(seg, lo, hi) ==
    IF hi <= Len(seg.data) THEN SubSeq(seg.data, lo, hi)
    ELSE IF lo > Len(seg.data) THEN Zeros(hi - lo + 1)
    ELSE SubSeq(seg.data, lo, Len(seg.data)) \o Zeros(hi - Len(seg.data))

\* a file holding exactly `bytes`, kept page by page
DenseFile(bytes) ==
    [ size |-> U64Of(Len(bytes)),
      segs |-> [ p \in 1..((Len(bytes) + PAGE_SIZE - 1) \div PAGE_SIZE) |->
                   Range(U64Of((p - 1) * PAGE_SIZE),
                         SubSeq(bytes, (p - 1) * PAGE_SIZE + 1,
                                IF p * PAGE_SIZE < Len(bytes) THEN p * PAGE_SIZE
                                ELSE Len(bytes))) ] ]

\* further apart than any byte range the model holds
Far == Limb * 8192

\* pos - at as a signed integer, or +-Far when the two are far apart
Disp(pos, at) ==
    IF U64Leq(at, pos)
    THEN With(U64Sub(pos, at), LAMBDA d :
             IF U64Small(d) /\ U64ToNat(d) < Far THEN U64ToNat(d) ELSE Far)
    ELSE With(U64Sub(at, pos), LAMBDA d :
             IF U64Small(d) /\ U64ToNat(d) < Far THEN 0 - U64ToNat(d) ELSE 0 - Far)

\* the written ranges of f that meet [pos, pos + n)
Meeting(f, pos, n) ==
    { k \in 1..Len(f.segs) :
        \E d \in { Disp(pos, f.segs[k].at) } : d + n > 0 /\ d < f.segs[k].len }

\* the byte at pos + i: the latest range written there, zero in a hole
ByteAt(f, pos, i) ==
    With({ k \in 1..Len(f.segs) :
             \E d \in { Disp(pos, f.segs[k].at) + i } : d >= 0 /\ d < f.segs[k].len },
         LAMBDA here :
    IF here = {} THEN 0
    ELSE With(f.segs[Latest(here)], LAMBDA seg :
             With(Disp(pos, seg.at) + i + 1, LAMBDA j :
                 IF j <= Len(seg.data) THEN seg.data[j] ELSE 0)))

\* the n bytes at pos of f, taken from range k when it holds them all
BytesFrom(f, pos, n, k) ==
    With(Disp(pos, f.segs[k].at), LAMBDA d :
    IF d >= 0 /\ d + n <= f.segs[k].len
    THEN Part(f.segs[k], d + 1, d + n)
    ELSE [i \in 1..n |-> ByteAt(f, pos, i - 1)])

\* the n bytes of f at pos (all below the file's size)
FileBytes(f, pos, n) ==
    With(Meeting(f, pos, n), LAMBDA meet :
    IF meet = {} THEN Zeros(n) ELSE BytesFrom(f, pos, n, Latest(meet)))

\* range k of f with `bytes` spliced in at displacement d
Spliced(f, k, d, bytes) ==
    With(f.segs[k], LAMBDA old :
    [ f.segs EXCEPT ![k] =
        Range(old.at, Part(old, 1, d) \o bytes
                      \o Part(old, d + Len(bytes) + 1, old.len)) ])

\* f with `bytes` stored at pos: spliced into the one range they touch when
\* they lie inside it, or kept as a later range that hides what lies under it
FileStore(f, pos, bytes) ==
    With(U64Add(pos, U64Of(Len(bytes))), LAMBDA end :
    With({ k \in 1..Len(f.segs) :
             /\ \E d \in { Disp(pos, f.segs[k].at) } :
                    d >= 0 /\ d + Len(bytes) <= f.segs[k].len
             /\ Meeting(f, pos, Len(bytes)) \subseteq {k} },
         LAMBDA into :
    [ size |-> IF U64Less(f.size, end) THEN end ELSE f.size,
      segs |-> IF into # {}
               THEN Spliced(f, Latest(into), Disp(pos, f.segs[Latest(into)].at), bytes)
               ELSE Append(f.segs, Range(pos, bytes)) ]))

\* --------------------------------------------------------------- handle

\* File::open: a handle at byte 0
OpenHandle(mode) == [ mode |-> mode, pos |-> U64Of(0), last_write_err |-> FALSE ]

\* seek(SeekFrom::Start(o)): an offset above i64::MAX is refused
Seek(h, o) ==
    IF o[1] >= 32768
    THEN [ ok |-> FALSE, err |-> "EINVAL", h |-> h ]
    ELSE [ ok |-> TRUE, err |-> "none", h |-> [ h EXCEPT !.pos = o ] ]

\* read_exact of n bytes at the cursor: a short read leaves the cursor at the end
ReadExact(f, h, n) ==
    IF U64Leq(U64Add(h.pos, U64Of(n)), f.size)
    THEN [ ok |-> TRUE, err |-> "none", h |-> [ h EXCEPT !.pos = U64Add(h.pos, U64Of(n)) ],
           buf |-> FileBytes(f, h.pos, n) ]
    ELSE [ ok |-> FALSE, err |-> "UnexpectedEof",
           h |-> [ h EXCEPT !.pos = IF U64Less(h.pos, f.size) THEN f.size ELSE h.pos ],
           buf |-> << >> ]

\* write_all at the cursor: the write runs in the background; on a handle that
\* is not open for writing it fails, which the next flush reports
WriteAll(f, h, bytes) ==
    IF h.mode = "read_write"
    THEN [ ok |-> TRUE, err |-> "none", f |-> FileStore(f, h.pos, bytes),
           h |-> [ h EXCEPT !.pos = U64Add(h.pos, U64Of(Len(bytes))) ] ]
    ELSE [ ok |-> TRUE, err |-> "none", f |-> f, h |-> [ h EXCEPT !.last_write_err = TRUE ] ]

Flush(h) ==
    IF h.last_write_err
    THEN [ ok |-> FALSE, err |-> "EBADF", h |-> [ h EXCEPT !.last_write_err = FALSE ] ]
    ELSE [ ok |-> TRUE, err |-> "none", h |-> h ]

\* --------------------------------------------------------------- engine

NoEngine == [ live |-> FALSE ]

Exists(f) == f # NoFile

\* StorageEngine::new: File::open of an existing file, the default layout as mirror
new(f, mode) ==
    IF ~Exists(f)
    THEN [ res |-> "Io", err |-> "NotFound", engine |-> NoEngine ]
    ELSE [ res |-> "Ok", err |-> "none",
           engine |-> [ live |-> TRUE, file_layout |-> NexoraFileDefault,
                        file_handle |-> OpenHandle(mode) ] ]

LoadFailed(res, err) == [ res |-> res, err |-> err, engine |-> NoEngine ]

\* load without its last seek: the cursor stays behind the footer page
load_unrewound(f, mode) ==
    With(new(f, mode), LAMBDA opened :
    IF opened.res # "Ok" THEN opened ELSE
    With(ReadExact(f, opened.engine.file_handle, 6), LAMBDA r1 :
    IF ~r1.ok THEN LoadFailed("Io", r1.err) ELSE
    With(Seek(r1.h, U64Of(0)), LAMBDA s1 :
    IF ~s1.ok THEN LoadFailed("Io", s1.err) ELSE
    IF ~verify_magic(r1.buf) THEN LoadFailed("InvalidMagicValue", "none") ELSE
    With(ReadExact(f, s1.h, PAGE_SIZE), LAMBDA r2 :
    IF ~r2.ok THEN LoadFailed("Io", r2.err) ELSE
    With(NexoraHeader_deserialize(r2.buf), LAMBDA header :
    With(Seek(r2.h, header.footer_offset), LAMBDA s2 :
    IF ~s2.ok THEN LoadFailed("Io", s2.err) ELSE
    With(ReadExact(f, s2.h, PAGE_SIZE), LAMBDA r3 :
    IF ~r3.ok THEN LoadFailed("Io", r3.err) ELSE
    [ res |-> "Ok", err |-> "none",
      engine |-> [ live |-> TRUE,
                   file_layout |-> [ header |-> header,
                                     footer |-> NexoraFooter_deserialize(r3.buf) ],
                   file_handle |-> r3.h ] ])))))))

\* StorageEngine::load
load(f, mode) ==
    With(new(f, mode), LAMBDA opened :
    IF opened.res # "Ok" THEN opened ELSE
    With(ReadExact(f, opened.engine.file_handle, 6), LAMBDA r1 :
    IF ~r1.ok THEN LoadFailed("Io", r1.err) ELSE
    With(Seek(r1.h, U64Of(0)), LAMBDA s1 :
    IF ~s1.ok THEN LoadFailed("Io", s1.err) ELSE
    IF ~verify_magic(r1.buf) THEN LoadFailed("InvalidMagicValue", "none") ELSE
    With(ReadExact(f, s1.h, PAGE_SIZE), LAMBDA r2 :
    IF ~r2.ok THEN LoadFailed("Io", r2.err) ELSE
    With(NexoraHeader_deserialize(r2.buf), LAMBDA header :
    With(Seek(r2.h, header.footer_offset), LAMBDA s2 :
    IF ~s2.ok THEN LoadFailed("Io", s2.err) ELSE
    With(ReadExact(f, s2.h, PAGE_SIZE), LAMBDA r3 :
    IF ~r3.ok THEN LoadFailed("Io", r3.err) ELSE
    With(Seek(r3.h, U64Of(0)), LAMBDA s3 :
    IF ~s3.ok THEN LoadFailed("Io", s3.err) ELSE
    [ res |-> "Ok", err |-> "none",
      engine |-> [ live |-> TRUE,
                   file_layout |-> [ header |-> header,
                                     footer |-> NexoraFooter_deserialize(r3.buf) ],
                   file_handle |-> s3.h ] ]))))))))

WithHandle(eng, h) == [ eng EXCEPT !.file_handle = h ]

ReadResult(res, err, eng, h, chunk) ==
    [ res |-> res, err |-> err, eng |-> WithHandle(eng, h), chunk |-> chunk ]

\* read_offset_table without its check of the sentinel
read_offset_table_unchecked(f, eng, offset) ==
    With(Seek(eng.file_handle, offset), LAMBDA s1 :
    IF ~s1.ok THEN ReadResult("Io", s1.err, eng, s1.h, << >>) ELSE
    With(ReadExact(f, s1.h, PAGE_SIZE), LAMBDA r1 :
    IF ~r1.ok THEN ReadResult("Io", r1.err, eng, r1.h, << >>) ELSE
    ReadResult("Ok", "none", eng, r1.h, OffsetTableChunk_deserialize(r1.buf))))

\* StorageEngine::read_offset_table
read_offset_table(f, eng, offset) ==
    IF offset = INVALID_OFFSET
    THEN [ res |-> "InvalidOffsetValue", err |-> "none", eng |-> eng, chunk |-> << >> ] ELSE
    With(Seek(eng.file_handle, offset), LAMBDA s1 :
    IF ~s1.ok THEN ReadResult("Io", s1.err, eng, s1.h, << >>) ELSE
    With(ReadExact(f, s1.h, PAGE_SIZE), LAMBDA r1 :
    IF ~r1.ok THEN ReadResult("Io", r1.err, eng, r1.h, << >>) ELSE
    ReadResult("Ok", "none", eng, r1.h, OffsetTableChunk_deserialize(r1.buf))))

LogResult(res, err, eng, h, f) ==
    [ res |-> res, err |-> err, eng |-> WithHandle(eng, h), f |-> f ]

\* seek, write_all, seek(0), flush: the body log_offset_chunk and
\* log_footer_chunk share
\* LogPage that leaves the cursor after the page it wrote
LogPage_no_rewind(f, eng, buf, offset) ==
    With(Seek(eng.file_handle, offset), LAMBDA s1 :
    IF ~s1.ok THEN LogResult("Io", s1.err, eng, s1.h, f) ELSE
    With(WriteAll(f, s1.h, buf), LAMBDA w1 :
    With(Flush(w1.h), LAMBDA fl :
    IF ~fl.ok THEN LogResult("Io", fl.err, eng, fl.h, w1.f) ELSE
    LogResult("Ok", "none", eng, fl.h, w1.f))))

LogPage(f, eng, buf, offset) ==
    With(Seek(eng.file_handle, offset), LAMBDA s1 :
    IF ~s1.ok THEN LogResult("Io", s1.err, eng, s1.h, f) ELSE
    With(WriteAll(f, s1.h, buf), LAMBDA w1 :
    With(Seek(w1.h, U64Of(0)), LAMBDA s2 :
    IF ~s2.ok THEN LogResult("Io", s2.err, eng, s2.h, w1.f) ELSE
    With(Flush(s2.h), LAMBDA fl :
    IF ~fl.ok THEN LogResult("Io", fl.err, eng, fl.h, w1.f) ELSE
    LogResult("Ok", "none", eng, fl.h, w1.f)))))

\* StorageEngine::log_footer_chunk: the footer written at header.footer_offset
log_footer_chunk(f, eng) ==
    LogPage(f, eng, FooterBytes(eng.file_layout.footer), eng.file_layout.header.footer_offset)

\* StorageEngine::log_offset_chunk. Its last statement calls log_footer_chunk
\* without awaiting it: the future is dropped and its body never runs.
log_offset_chunk(f, eng, chunk, offset) ==
    LogPage(f, eng, OffsetTableChunk_serialize(chunk), offset)

\* the allocator without its advance: every call hands out the same offset
get_new_offset_table_space_stuck(eng) ==
    [ new_chunk_path |-> eng.file_layout.header.footer_offset, eng |-> eng ]

\* StorageEngine::get_new_offset_table_space (u64 addition, wrapping)
get_new_offset_table_space(eng) ==
    [ new_chunk_path |-> eng.file_layout.header.footer_offset,
      eng |-> [ eng EXCEPT !.file_layout.header.footer_offset =
                             U64Add(@, U64Of(PAGE_SIZE)) ] ]

InsertResult(res, err, eng, f, writes) ==
    [ res |-> res, err |-> err, eng |-> eng, f |-> f, writes |-> writes ]

\* insert_into with the slot index off by one: the item lands on the last
\* item the chunk holds
insert_into_last(f, eng, chunk, offset, offset_item) ==
    With(log_offset_chunk(f, eng,
             [ chunk EXCEPT
                 !.offset_items[IF chunk.nb_items = 0 THEN 1 ELSE chunk.nb_items] = offset_item,
                 !.nb_items = chunk.nb_items + 1 ],
             offset),
         LAMBDA lg :
    InsertResult(lg.res, lg.err, lg.eng, lg.f, IF lg.res = "Ok" THEN << offset >> ELSE << >>))

\* insert_into that also counts the item in the footer's name-table entry
insert_into_counting(f, eng, chunk, offset, offset_item) ==
    With(log_offset_chunk(f,
             [ eng EXCEPT !.file_layout.footer.name_table_offset.nb_total_items =
                              U64Add(@, U64Of(1)) ],
             [ chunk EXCEPT !.offset_items[chunk.nb_items + 1] = offset_item,
                            !.nb_items = chunk.nb_items + 1 ],
             offset),
         LAMBDA lg :
    InsertResult(lg.res, lg.err, lg.eng, lg.f, IF lg.res = "Ok" THEN << offset >> ELSE << >>))

\* insert_into that also takes a page from the allocator
insert_into_allocating(f, eng, chunk, offset, offset_item) ==
    With(log_offset_chunk(f, get_new_offset_table_space(eng).eng,
             [ chunk EXCEPT !.offset_items[chunk.nb_items + 1] = offset_item,
                            !.nb_items = chunk.nb_items + 1 ],
             offset),
         LAMBDA lg :
    InsertResult(lg.res, lg.err, lg.eng, lg.f, IF lg.res = "Ok" THEN << offset >> ELSE << >>))

\* the chunk has a free slot: fill it and write the chunk back
insert_into(f, eng, chunk, offset, offset_item) ==
    With(log_offset_chunk(f, eng,
             [ chunk EXCEPT !.offset_items[chunk.nb_items + 1] = offset_item,
                            !.nb_items = chunk.nb_items + 1 ],
             offset),
         LAMBDA lg :
    InsertResult(lg.res, lg.err, lg.eng, lg.f, IF lg.res = "Ok" THEN << offset >> ELSE << >>))

\* insert_new_chunk that leaves the new chunk's previous_chunk at its default
insert_new_chunk_unlinked(f, eng, chunk, offset, offset_item) ==
    With(get_new_offset_table_space(eng), LAMBDA space :
    With(log_offset_chunk(f, space.eng,
             [ chunk EXCEPT !.next_chunk = space.new_chunk_path ], offset),
         LAMBDA lg1 :
    IF lg1.res # "Ok" THEN InsertResult(lg1.res, lg1.err, lg1.eng, lg1.f, << >>) ELSE
    With(log_offset_chunk(lg1.f, lg1.eng,
             [ OffsetTableChunkDefault EXCEPT
                 !.offset_items[1] = offset_item,
                 !.nb_items = 1 ],
             space.new_chunk_path),
         LAMBDA lg2 :
    InsertResult(lg2.res, lg2.err, lg2.eng, lg2.f,
                 IF lg2.res = "Ok" THEN << offset, space.new_chunk_path >>
                 ELSE << offset >>))))

\* insert_new_chunk whose new chunk names itself as previous_chunk
insert_new_chunk_self_prev(f, eng, chunk, offset, offset_item) ==
    With(get_new_offset_table_space(eng), LAMBDA space :
    With(log_offset_chunk(f, space.eng,
             [ chunk EXCEPT !.next_chunk = space.new_chunk_path ], offset),
         LAMBDA lg1 :
    IF lg1.res # "Ok" THEN InsertResult(lg1.res, lg1.err, lg1.eng, lg1.f, << >>) ELSE
    With(log_offset_chunk(lg1.f, lg1.eng,
             [ OffsetTableChunkDefault EXCEPT
                 !.previous_chunk = space.new_chunk_path,
                 !.offset_items[1] = offset_item,
                 !.nb_items = 1 ],
             space.new_chunk_path),
         LAMBDA lg2 :
    InsertResult(lg2.res, lg2.err, lg2.eng, lg2.f,
                 IF lg2.res = "Ok" THEN << offset, space.new_chunk_path >>
                 ELSE << offset >>))))

\* insert_new_chunk that writes the new chunk before the full one
insert_new_chunk_new_first(f, eng, chunk, offset, offset_item) ==
    With(get_new_offset_table_space(eng), LAMBDA space :
    With(log_offset_chunk(f, space.eng,
             [ OffsetTableChunkDefault EXCEPT
                 !.previous_chunk = offset,
                 !.offset_items[1] = offset_item,
                 !.nb_items = 1 ],
             space.new_chunk_path),
         LAMBDA lg1 :
    IF lg1.res # "Ok" THEN InsertResult(lg1.res, lg1.err, lg1.eng, lg1.f, << >>) ELSE
    With(log_offset_chunk(lg1.f, lg1.eng,
             [ chunk EXCEPT !.next_chunk = space.new_chunk_path ], offset),
         LAMBDA lg2 :
    InsertResult(lg2.res, lg2.err, lg2.eng, lg2.f,
                 IF lg2.res = "Ok" THEN << space.new_chunk_path, offset >>
                 ELSE << space.new_chunk_path >>))))

\* the chunk is full and the last of its chain: link a new chunk after it
insert_new_chunk(f, eng, chunk, offset, offset_item) ==
    With(get_new_offset_table_space(eng), LAMBDA space :
    With(log_offset_chunk(f, space.eng,
             [ chunk EXCEPT !.next_chunk = space.new_chunk_path ], offset),
         LAMBDA lg1 :
    IF lg1.res # "Ok" THEN InsertResult(lg1.res, lg1.err, lg1.eng, lg1.f, << >>) ELSE
    With(log_offset_chunk(lg1.f, lg1.eng,
             [ OffsetTableChunkDefault EXCEPT
                 !.previous_chunk = offset,
                 !.offset_items[1] = offset_item,
                 !.nb_items = 1 ],
             space.new_chunk_path),
         LAMBDA lg2 :
    InsertResult(lg2.res, lg2.err, lg2.eng, lg2.f,
                 IF lg2.res = "Ok" THEN << offset, space.new_chunk_path >>
                 ELSE << offset >>))))

RECURSIVE insert_loop(_, _, _, _, _)
\* the loop of insert_offset_item; `visited` are the offsets already read in
\* this call: reading one again repeats the same iteration for ever
insert_loop(f, eng, offset, offset_item, visited) ==
    IF offset \in visited THEN InsertResult("NoReturn", "none", eng, f, << >>) ELSE
    With(read_offset_table(f, eng, offset), LAMBDA rd :
    IF rd.res # "Ok" THEN InsertResult(rd.res, rd.err, rd.eng, f, << >>)
    ELSE IF rd.chunk.nb_items < MAX_ITEMS
    THEN insert_into(f, rd.eng, rd.chunk, offset, offset_item)
    ELSE IF rd.chunk.next_chunk = INVALID_OFFSET
    THEN insert_new_chunk(f, rd.eng, rd.chunk, offset, offset_item)
    ELSE insert_loop(f, rd.eng, rd.chunk.next_chunk, offset_item, visited \cup {offset}))

\* StorageEngine::insert_offset_item
insert_offset_item(f, eng, offset, offset_item) ==
    IF offset = INVALID_OFFSET
    THEN InsertResult("InvalidOffsetValue", "none", eng, f, << >>)
    ELSE insert_loop(f, eng, offset, offset_item, {})

\* StorageEngine::close
close(eng) == Flush(eng.file_handle)

\* ----------------------------------------------------- inputs and bounds

\* sections whose chains the modelled caller inserts into (1 = name table, ...)
NumSections == 2

\* successful insert_offset_item calls in one behaviour
MaxInserts == 2

SectionBases == { DefaultBase(i) : i \in 1..NumSections }

InsertStarts == SectionBases \cup { INVALID_OFFSET }

ReadOffsets == { DefaultBase(1), INVALID_OFFSET, U64Of(10 * PAGE_SIZE) }

\* The caller numbers the items it inserts: the k-th stored item is ItemNo(k).
ItemNo(k) == [ id |-> U64Of(1000 + k), offset |-> U64Of((20 + k) * PAGE_SIZE) ]

Items == { ItemNo(k) : k \in 1..MaxInserts }

\* the image main writes: NexoraFile::default().serialize()
DefaultImage == DenseFile(NexoraFile_serialize(NexoraFileDefault))

\* ---- files the environment may hold at the path (Spec)

Magics == { FILE_HEADER_MAGIC, << 78, 88, 82, 118, 48, 1 >> }

FirstEights ==
    { to_le_bytes_u64(U64Of(9 * PAGE_SIZE)),
      FILE_HEADER_MAGIC \o << 0, 0 >>,
      FILE_HEADER_MAGIC \o << 0, 128 >> }

EnvHeaderPage(first8, magic) ==
    first8 \o Zeros(8) \o magic \o Zeros(4) \o Zeros(HEADER_RESERVED)

EnvFile(first8, magic, shape) ==
    With(EnvHeaderPage(first8, magic), LAMBDA page0 :
    With(from_le_bytes_u64(first8), LAMBDA at :
        CASE shape = "image" ->
               [ DefaultImage EXCEPT !.segs[1] = Range(U64Of(0), page0) ]
          [] shape = "short" -> DenseFile(SubSeq(page0, 1, 3))
          [] shape = "cut" -> DenseFile(SubSeq(page0, 1, PAGE_SIZE - 1))
          [] shape = "sparse" ->
               [ size |-> U64Add(at, U64Of(PAGE_SIZE)),
                 segs |-> << Range(U64Of(0), page0),
                             Range(at, FooterBytes(NexoraFileDefault.footer)) >> ]))

EnvFiles ==
    { EnvFile(a, m, sh) : a \in FirstEights, m \in Magics,
                          sh \in { "image", "short", "cut", "sparse" } }

\* ---- default images after earlier successful inserts (SpecRW)

PrefillItem(k) == [ id |-> U64Of(k), offset |-> U64Of(16 * k) ]

PrefillItems(n) == [ k \in 1..n |-> PrefillItem(k) ]

\* the chunk a base page holds after n inserts into an empty chain, n <= 254
PrefilledChunk(n) ==
    [ OffsetTableChunkDefault EXCEPT
        !.nb_items = n,
        !.offset_items = [ i \in 1..MAX_ITEMS |->
                             IF i <= n THEN PrefillItem(i) ELSE OffsetItemDefault ] ]

PrefillLevels == { 0, MAX_ITEMS - 1, MAX_ITEMS }

\* every modelled section filled to the same level
Prefills == { [ b \in SectionBases |-> n ] : n \in PrefillLevels }

\* a file found at the path whose name-table and node-schema base chunks are
\* both full and name each other as next_chunk
CyclicImage ==
    [ DefaultImage EXCEPT
        !.segs[2] = Range(DefaultBase(1),
                          OffsetTableChunk_serialize(
                              [ PrefilledChunk(MAX_ITEMS) EXCEPT
                                  !.next_chunk = DefaultBase(2),
                                  !.previous_chunk = DefaultBase(2) ])),
        !.segs[3] = Range(DefaultBase(2),
                          OffsetTableChunk_serialize(
                              [ PrefilledChunk(MAX_ITEMS) EXCEPT
                                  !.next_chunk = DefaultBase(1),
                                  !.previous_chunk = DefaultBase(1) ])) ]

RECURSIVE PrefilledImage(_, _, _)
PrefilledImage(f, fill, todo) ==
    IF todo = {} THEN f
    ELSE With(CHOOSE x \in todo : TRUE, LAMBDA b :
         PrefilledImage(
             IF fill[b] = 0 THEN f
             ELSE FileStore(f, b, OffsetTableChunk_serialize(PrefilledChunk(fill[b]))),
             fill, todo \ {b}))

\* ---------------------------------------------------------------- state

VARIABLES
    file,       \* the file at the path
    engine,     \* the engine the caller holds, or NoEngine
    ret,        \* the last call and what it returned
    open_mode,  \* how StorageEngine::new opens the file
    prefill,    \* per section base: the items its chain held when the image was taken up
    inserted,   \* per section base: the items inserted with success since then
    stored,     \* where this engine's successful inserts put their items
    earlier,    \* where earlier engines' successful inserts put theirs
    done,       \* successful insert_offset_item calls so far
    builder,    \* the schema builder the caller holds, or NoBuilder
    pure        \* a call of a function of the layout: its argument and result

engine_vars == << file, engine, ret, open_mode, prefill, inserted, stored, earlier, done >>

unit_vars == << builder, pure >>

vars == << file, engine, ret, open_mode, prefill, inserted, stored, earlier, done,
           builder, pure >>

Ret(op, res, err, offset, item, writes) ==
    [ op |-> op, res |-> res, err |-> err, offset |-> offset, item |-> item, writes |-> writes ]

NoCall == Ret("none", "Ok", "none", U64Of(0), OffsetItemDefault, << >>)

NothingInserted == [ b \in SectionBases |-> << >> ]

NoBuilder ==
    [ kind |-> "none", id |-> U64Of(0), properties |-> << >>, panicked |-> FALSE,
      calls |-> << >> ]

NothingApplied ==
    [ fn |-> "none", chunk |-> OffsetTableChunkDefault, magic |-> FILE_HEADER_MAGIC,
      back |-> OffsetTableChunkDefault, valid |-> FALSE ]

\* a call that never returns leaves nothing to run after it
Returned == ret.res # "NoReturn"

InitCommon ==
    /\ engine = NoEngine
    /\ ret = NoCall
    /\ stored = {}
    /\ earlier = {}
    /\ done = 0
    /\ builder = NoBuilder
    /\ pure = NothingApplied

\* the program as written: File::open opens read-only
Init ==
    /\ open_mode = "read"
    /\ file \in EnvFiles \cup { NoFile, CyclicImage }
    /\ inserted = NothingInserted
    /\ prefill = [ b \in SectionBases |-> 0 ]
    /\ InitCommon

\* the engine with a handle open for reading and writing, over a default image
\* that earlier successful inserts have filled
InitRW ==
    /\ open_mode = "read_write"
    /\ \E fill \in Prefills :
          /\ file = PrefilledImage(DefaultImage, fill, SectionBases)
          /\ prefill = fill
          /\ inserted = NothingInserted
    /\ InitCommon

\* main: write_file(path, NexoraFile::default().serialize())
WriteFile ==
    /\ Returned
    /\ ~engine.live
    /\ file' = DefaultImage
    /\ inserted' = NothingInserted
    /\ prefill' = [ b \in SectionBases |-> 0 ]
    /\ ret' = Ret("write_file", "Ok", "none", U64Of(0), OffsetItemDefault, << >>)
    /\ earlier' = {}
    /\ UNCHANGED << engine, open_mode, stored, done >>
    /\ UNCHANGED unit_vars

Opened(op, r) ==
    /\ Returned
    /\ engine' = r.engine
    /\ ret' = Ret(op, r.res, r.err, U64Of(0), OffsetItemDefault, << >>)
    /\ stored' = {}
    /\ earlier' = earlier \cup stored
    /\ UNCHANGED << file, open_mode, prefill, inserted, done >>
    /\ UNCHANGED unit_vars

New ==
    /\ Opened("new", new(file, open_mode))

Load ==
    /\ Opened("load", load(file, open_mode))

ReadOffsetTable ==
    /\ Returned
    /\ engine.live
    /\ \E offset \in ReadOffsets :
          \E r \in { read_offset_table(file, engine, offset) } :
              /\ engine' = r.eng
              /\ ret' = Ret("read_offset_table", r.res, r.err, offset, OffsetItemDefault, << >>)
    /\ UNCHANGED << file, open_mode, prefill, inserted, stored, earlier, done >>
    /\ UNCHANGED unit_vars

\* the chunk on the page at offset p of f
ChunkAt(f, p) == OffsetTableChunk_deserialize(FileBytes(f, p, PAGE_SIZE))

\* where a successful insert left its item: the page written last, its last slot
StoredAt(f, p, item) == [ p |-> p, slot |-> ChunkAt(f, p).nb_items, item |-> item ]

\* a call of insert_offset_item with an item of `items`
InsertItem(items) ==
    /\ Returned
    /\ engine.live
    /\ done < MaxInserts
    /\ \E offset \in InsertStarts, item \in items :
          \E r \in { insert_offset_item(file, engine, offset, item) } :
              /\ file' = r.f
              /\ engine' = r.eng
              /\ ret' = Ret("insert_offset_item", r.res, r.err, offset, item, r.writes)
              /\ inserted' = IF r.res = "Ok"
                             THEN [ inserted EXCEPT ![offset] = Append(@, item) ]
                             ELSE inserted
              /\ stored' = IF r.res = "Ok"
                           THEN stored \cup { StoredAt(r.f, r.writes[Len(r.writes)], item) }
                           ELSE stored
              /\ done' = IF r.res = "Ok" THEN done + 1 ELSE done
    /\ UNCHANGED << open_mode, prefill, earlier >>
    /\ UNCHANGED unit_vars

\* the caller inserts the items it numbers
InsertOffsetItem ==
    /\ InsertItem({ i \in Items : i = ItemNo(done + 1) })

Close ==
    /\ Returned
    /\ engine.live
    /\ \E r \in { close(engine) } :
           /\ engine' = WithHandle(engine, r.h)
           /\ ret' = Ret("close", IF r.ok THEN "Ok" ELSE "Io", r.err, U64Of(0),
                         OffsetItemDefault, << >>)
    /\ UNCHANGED << file, open_mode, prefill, inserted, stored, earlier, done >>
    /\ UNCHANGED unit_vars

Next ==
    \/ WriteFile
    \/ New
    \/ Load
    \/ ReadOffsetTable
    \/ InsertOffsetItem
    \/ Close

Spec == Init /\ [][Next]_vars

SpecRW == InitRW /\ [][Next]_vars

\* ----------------------------------------------------------- properties

\* the page at byte offset p lies inside f
PageIn(f, p) ==
    /\ Exists(f)
    /\ ~U64AddOverflows(p, U64Of(PAGE_SIZE))
    /\ U64Leq(U64Add(p, U64Of(PAGE_SIZE)), f.size)

FooterOffset == engine.file_layout.header.footer_offset

\* C1: when the image NexoraFile::default().serialize() produces is the file
\* and load opens it, load returns an engine whose header.footer_offset is
\* 36864 (page 9) and whose footer.nodes_offset.base_chunk_offset is 28672
\* (page 7).
C1_DefaultImageLoads ==
    (ret.op = "load" /\ file = DefaultImage) =>
        /\ ret.res = "Ok"
        /\ engine.live
        /\ FooterOffset = U64Of(36864)
        /\ engine.file_layout.footer.nodes_offset.base_chunk_offset = U64Of(28672)

\* the 6 bytes of the persisted header's magic field, at byte 16 of page 0
PersistedMagic(f) == FileBytes(f, U64Of(16), 6)

\* C2: for every file whose header page holds a magic field different from
\* the signature NXRv0\0, load fails with InvalidMagicValue and returns no
\* engine.
C2_BadMagicRejected ==
    (ret.op = "load" /\ PageIn(file, U64Of(0)) /\ PersistedMagic(file) # FILE_HEADER_MAGIC) =>
        /\ ret.res = "InvalidMagicValue"
        /\ ~engine.live

\* C3: on an engine over a default image, insert_offset_item with a valid
\* start offset that points at a chunk with a free slot does not fail because
\* the handle rejects the write.
C3_HandleWritable ==
    ( /\ ret.op = "insert_offset_item"
      /\ ret.offset \in SectionBases
      /\ file = DefaultImage ) =>
        ~(ret.res = "Io" /\ ret.err = "EBADF")

RECURSIVE ChainFrom(_, _, _)
\* the chunk offsets next_chunk links from p on, up to the sentinel, to a page
\* outside the file or to an offset met before
ChainFrom(f, p, seen) ==
    IF p = INVALID_OFFSET \/ p \in seen \/ ~PageIn(f, p) THEN << >>
    ELSE << p >> \o ChainFrom(f, ChunkAt(f, p).next_chunk, seen \cup {p})

\* the items a chunk holds
HeldItems(chunk) ==
    SubSeq(chunk.offset_items, 1,
           IF chunk.nb_items < MAX_ITEMS THEN chunk.nb_items ELSE MAX_ITEMS)

RECURSIVE ChainItems(_, _, _)
\* the items of the chunks chain[i..], in chain order
ChainItems(f, chain, i) ==
    IF i > Len(chain) THEN << >>
    ELSE HeldItems(ChunkAt(f, chain[i])) \o ChainItems(f, chain, i + 1)

\* what the chain from base c0 is to hold: the items of earlier inserts, then
\* the items inserted since, in the order of their insertion
Wanted(c0) == PrefillItems(prefill[c0]) \o inserted[c0]

\* the chain from c0 after its 255th insert: two chunks, linked both ways
GrownOnce(f, c0, last_item) ==
    With(ChunkAt(f, c0), LAMBDA first :
        /\ first.nb_items = MAX_ITEMS
        /\ first.next_chunk # INVALID_OFFSET
        /\ U64Leq(U64Of(9 * PAGE_SIZE), first.next_chunk)
        /\ PageIn(f, first.next_chunk)
        /\ With(ChunkAt(f, first.next_chunk), LAMBDA second :
               /\ second.nb_items = 1
               /\ second.offset_items[1] = last_item
               /\ second.previous_chunk = c0
               /\ second.next_chunk = INVALID_OFFSET))

ChainInOrder(f, c0) ==
    With(ChainFrom(f, c0, {}), LAMBDA chain :
        /\ ChainItems(f, chain, 1) = Wanted(c0)
        /\ \A i \in 1..(Len(chain) - 1) : ChunkAt(f, chain[i]).nb_items = MAX_ITEMS
        /\ Len(Wanted(c0)) = MAX_ITEMS + 1 =>
               GrownOnce(f, c0, Wanted(c0)[MAX_ITEMS + 1]))

HoldsAt(f, s) ==
    /\ PageIn(f, s.p)
    /\ With(ChunkAt(f, s.p), LAMBDA chunk :
           chunk.nb_items >= s.slot /\ chunk.offset_items[s.slot] = s.item)

C7_InvalidOffsetRejected ==
    [][ ( /\ ret'.op \in { "read_offset_table", "insert_offset_item" }
          /\ ret'.offset = INVALID_OFFSET ) =>
            /\ ret'.res = "InvalidOffsetValue"
            /\ file' = file
            /\ engine' = engine ]_vars

C7_Witness ==
    /\ ret.op = "insert_offset_item"
    /\ ret.offset = INVALID_OFFSET
    /\ ret.res = "InvalidOffsetValue"
    /\ engine.file_handle.pos # U64Of(0)

\* the chunk pages of the chains of f
ChunkPages(f) ==
    UNION { { ChainFrom(f, c0, {})[i] : i \in 1..Len(ChainFrom(f, c0, {})) } :
            c0 \in SectionBases }

LoadStepFails(f) ==
    \/ ~Exists(f)
    \/ ~PageIn(f, U64Of(0))
    \/ FileBytes(f, U64Of(0), 6) # FILE_HEADER_MAGIC
    \/ ~PageIn(f, NexoraHeader_deserialize(FileBytes(f, U64Of(0), PAGE_SIZE)).footer_offset)

\* C10: when load returns an engine, its header is the decoding of page 0,
\* its footer the decoding of the page at that header's footer_offset and the
\* cursor is at byte 0; when a step of load fails, load returns an error and
\* no engine.
C10_LoadMirror ==
    ret.op = "load" =>
        /\ ret.res = "Ok" =>
              /\ engine.live
              /\ engine.file_layout.header
                     = NexoraHeader_deserialize(FileBytes(file, U64Of(0), PAGE_SIZE))
              /\ PageIn(file, FooterOffset)
              /\ engine.file_layout.footer
                     = NexoraFooter_deserialize(FileBytes(file, FooterOffset, PAGE_SIZE))
              /\ engine.file_handle.pos = U64Of(0)
        /\ ret.res # "Ok" => ~engine.live
        /\ LoadStepFails(file) => ret.res # "Ok"

C10_Witness ==
    /\ ret.op = "load"
    /\ ret.res = "Ok"
    /\ engine.live

\* ------------------------------------------------------------------ C11

\* the sections of the footer in their fixed order
SectionNames ==
    << "name_table_offset", "node_schema_offset", "edge_schema_offset",
       "schema_properties_offset", "metadata_offset", "indices_offset",
       "nodes_offset", "edges_offset" >>

EmptyChunk(c) ==
    c.nb_items = 0 /\ c.previous_chunk = INVALID_OFFSET /\ c.next_chunk = INVALID_OFFSET

\* C11: NexoraFile::default() has footer_offset = 9 pages; section number i
\* (1..8 here, 0..7 in the source) has base_chunk_offset = i pages and no
\* items; in the written image each base page decodes to an empty chunk and the
\* page at footer_offset decodes to the default footer.
C11_DefaultImage ==
    ret.op = "write_file" =>
        /\ NexoraFileDefault.header.footer_offset = U64Of(9 * PAGE_SIZE)
        /\ \A i \in 1..8 :
              With(NexoraFileDefault.footer[SectionNames[i]], LAMBDA t :
                  /\ t.base_chunk_offset = U64Of(i * PAGE_SIZE)
                  /\ t.nb_total_items = U64Of(0)
                  /\ PageIn(file, t.base_chunk_offset)
                  /\ EmptyChunk(ChunkAt(file, t.base_chunk_offset)))
        /\ PageIn(file, NexoraFileDefault.header.footer_offset)
        /\ NexoraFooter_deserialize(
               FileBytes(file, NexoraFileDefault.header.footer_offset, PAGE_SIZE))
             = NexoraFileDefault.footer

C11_Witness == ret.op = "write_file" /\ file.size = U64Of(10 * PAGE_SIZE)

\* ------------------------------------------------------- schema builders

MAX_PROPERTIES_COUNT == 120

\* the number of leading property() calls whose descriptor is chosen freely
FreeProps == 2

PropertyBuilder_new(name, type, optional) ==
    [ name |-> name, type |-> type, optional |-> optional ]

NodeSchemaBuilder_new(id) == [ id |-> id, properties |-> << >> ]

EdgeSchemaBuilder_new(id) == [ id |-> id, properties |-> << >> ]

\* the cap tested after the push instead of before it
NodeSchemaBuilder_property_late(self, prop) ==
    IF Len(self.properties) > MAX_PROPERTIES_COUNT
    THEN [ res |-> "panic", self |-> NodeSchemaBuilder_new(self.id) ]
    ELSE [ res |-> "Ok", self |-> [ self EXCEPT !.properties = Append(@, prop) ] ]

\* On a panic the draft is dropped: `self` of the result is then a
\* placeholder that nothing reads.
NodeSchemaBuilder_property(self, prop) ==
    IF Len(self.properties) >= MAX_PROPERTIES_COUNT
    THEN [ res |-> "panic", self |-> NodeSchemaBuilder_new(self.id) ]
    ELSE [ res |-> "Ok", self |-> [ self EXCEPT !.properties = Append(@, prop) ] ]

EdgeSchemaBuilder_property(self, prop) ==
    IF Len(self.properties) >= MAX_PROPERTIES_COUNT
    THEN [ res |-> "panic", self |-> EdgeSchemaBuilder_new(self.id) ]
    ELSE [ res |-> "Ok", self |-> [ self EXCEPT !.properties = Append(@, prop) ] ]

SchemaIds == { U64Of(1), INVALID_OFFSET }

\* the descriptors the k-th property() call may pass; the name stands for the
\* string "p<k>"
Props(k) ==
    IF k <= FreeProps
    THEN { PropertyBuilder_new(k, "Int8", FALSE), PropertyBuilder_new(k, "InvalidType", TRUE) }
    ELSE { PropertyBuilder_new(k, "String64", k % 2 = 0) }

\* the draft the program holds
Draft == [ id |-> builder.id, properties |-> builder.properties ]

\* builder.calls lists the descriptors passed to property() so far
Built(kind, r, prop) ==
    /\ builder' = [ kind       |-> kind,
                    id         |-> r.self.id,
                    properties |-> r.self.properties,
                    panicked   |-> r.res = "panic",
                    calls      |-> Append(builder.calls, prop) ]
    /\ UNCHANGED engine_vars
    /\ UNCHANGED pure

NodeSchemaBuilderNew ==
    /\ builder.kind = "none"
    /\ \E id \in SchemaIds :
          builder' = [ NoBuilder EXCEPT !.kind = "node", !.id = NodeSchemaBuilder_new(id).id,
                                        !.properties = NodeSchemaBuilder_new(id).properties ]
    /\ UNCHANGED engine_vars
    /\ UNCHANGED pure

EdgeSchemaBuilderNew ==
    /\ builder.kind = "none"
    /\ \E id \in SchemaIds :
          builder' = [ NoBuilder EXCEPT !.kind = "edge", !.id = EdgeSchemaBuilder_new(id).id,
                                        !.properties = EdgeSchemaBuilder_new(id).properties ]
    /\ UNCHANGED engine_vars
    /\ UNCHANGED pure

\* a panic ends the program: nothing is called on the draft afterwards
NodeSchemaBuilderProperty ==
    /\ builder.kind = "node"
    /\ ~builder.panicked
    /\ \E prop \in Props(Len(builder.calls) + 1) :
          Built("node", NodeSchemaBuilder_property(Draft, prop), prop)

EdgeSchemaBuilderProperty ==
    /\ builder.kind = "edge"
    /\ ~builder.panicked
    /\ \E prop \in Props(Len(builder.calls) + 1) :
          Built("edge", EdgeSchemaBuilder_property(Draft, prop), prop)

InitBuilder ==
    /\ open_mode = "read"
    /\ file = NoFile
    /\ inserted = NothingInserted
    /\ prefill = [ b \in SectionBases |-> 0 ]
    /\ InitCommon

NextBuilder ==
    \/ NodeSchemaBuilderNew
    \/ EdgeSchemaBuilderNew
    \/ NodeSchemaBuilderProperty
    \/ EdgeSchemaBuilderProperty

SpecBuilder == InitBuilder /\ [][NextBuilder]_vars

\* C12: a node or edge draft never holds more than 120 descriptors, holds the
\* descriptors passed to property() in the order of the calls, and the call
\* made on a draft of 120 descriptors (the 121st) panics and yields no draft.
C12_BuilderCap ==
    /\ Len(builder.properties) <= MAX_PROPERTIES_COUNT
    /\ Len(builder.calls) <= MAX_PROPERTIES_COUNT + 1
    /\ builder.panicked <=> Len(builder.calls) = MAX_PROPERTIES_COUNT + 1
    /\ ~builder.panicked => builder.properties = builder.calls

C12_Witness ==
    /\ builder.kind \in { "node", "edge" }
    /\ builder.panicked
    /\ Len(builder.calls) = MAX_PROPERTIES_COUNT + 1

\* ------------------------------------------------------ record functions

\* a u64 whose eight bytes all differ
MixedU64 == << 1 * 256 + 2, 3 * 256 + 4, 5 * 256 + 6, 7 * 256 + 8 >>

\* item arrays: untouched, one slot set, every slot different from the others
ItemArrays ==
    { OffsetTableChunkDefault.offset_items,
      [ OffsetTableChunkDefault.offset_items EXCEPT ![1] = ItemNo(1) ],
      [ i \in 1..MAX_ITEMS |->
          [ id     |-> << 9 * 256 + 10, 11 * 256 + 12, 13 * 256 + 14, i >>,
            offset |-> << i * 256, 15 * 256 + 16, 17 * 256 + 18, 19 * 256 + (i % 256) >> ] ] }

Links == { INVALID_OFFSET, U64Of(PAGE_SIZE), MixedU64 }

\* nb_items is a u8: any value up to 255 can be held
ChunkInputs ==
    { [ nb_items       |-> n,
        _pad0          |-> pad,
        previous_chunk |-> prev,
        next_chunk     |-> next,
        offset_items   |-> items,
        _reserved      |-> res ] :
        n \in { 0, 1, MAX_ITEMS, 255 },
        pad \in { Zeros(7), << 1, 2, 3, 4, 5, 6, 255 >> },
        prev \in Links, next \in Links,
        items \in ItemArrays,
        res \in { Zeros(8), << 255, 7, 6, 5, 4, 3, 2, 1 >> } }

\* the signature with its byte number k replaced by b
MagicWith(k, b) == [ FILE_HEADER_MAGIC EXCEPT ![k] = b ]

MagicInputs ==
    { MagicWith(k, b) : k \in 1..6, b \in { 0, 1, 48, 78, 79, 255 } }
        \cup { Zeros(6), << 0, 48, 118, 82, 88, 78 >> }

InitCodec ==
    /\ open_mode = "read"
    /\ file = NoFile
    /\ inserted = NothingInserted
    /\ prefill = [ b \in SectionBases |-> 0 ]
    /\ engine = NoEngine
    /\ ret = NoCall
    /\ stored = {}
    /\ earlier = {}
    /\ done = 0
    /\ builder = NoBuilder
    /\ \E c \in ChunkInputs, m \in MagicInputs :
          /\ c = OffsetTableChunkDefault \/ m = FILE_HEADER_MAGIC
          /\ pure = [ NothingApplied EXCEPT !.chunk = c, !.magic = m ]

\* OffsetTableChunk::deserialize(&x.serialize())
RoundTrip ==
    /\ pure.fn = "none"
    /\ pure' = [ pure EXCEPT
                   !.fn = "round_trip",
                   !.back = OffsetTableChunk_deserialize(OffsetTableChunk_serialize(pure.chunk)) ]
    /\ UNCHANGED engine_vars
    /\ UNCHANGED builder

\* NexoraHeader::verify_magic(b)
VerifyMagic ==
    /\ pure.fn = "none"
    /\ pure' = [ pure EXCEPT !.fn = "verify_magic", !.valid = verify_magic(pure.magic) ]
    /\ UNCHANGED engine_vars
    /\ UNCHANGED builder

NextCodec == RoundTrip \/ VerifyMagic

SpecCodec == InitCodec /\ [][NextCodec]_vars

\* C13: deserialize(serialize(x)) equals x in every field, for nb_items from 0
\* to 255, links with and without the sentinel, any items, any pad and
\* reserved bytes.
C13_ChunkRoundTrip ==
    pure.fn = "round_trip" =>
        /\ pure.back.nb_items = pure.chunk.nb_items
        /\ pure.back._pad0 = pure.chunk._pad0
        /\ pure.back.previous_chunk = pure.chunk.previous_chunk
        /\ pure.back.next_chunk = pure.chunk.next_chunk
        /\ \A i \in 1..MAX_ITEMS :
              /\ pure.back.offset_items[i].id = pure.chunk.offset_items[i].id
              /\ pure.back.offset_items[i].offset = pure.chunk.offset_items[i].offset
        /\ pure.back._reserved = pure.chunk._reserved

C13_Witness ==
    /\ pure.fn = "round_trip"
    /\ pure.chunk.nb_items = 255
    /\ pure.chunk._pad0 # Zeros(7)
    /\ pure.chunk._reserved # Zeros(8)
    /\ pure.chunk.next_chunk = INVALID_OFFSET
    /\ pure.chunk.previous_chunk = MixedU64
    /\ pure.chunk.offset_items[MAX_ITEMS].offset # INVALID_OFFSET

\* C14: verify_magic(b) is true exactly when b is 4E 58 52 76 30 00, so it is
\* false for the signature with any one byte changed.
C14_MagicExact ==
    pure.fn = "verify_magic" =>
        /\ pure.valid <=> pure.magic = << 78, 88, 82, 118, 48, 0 >>
        /\ \A k \in 1..6 : \A b \in 0..255 :
              (pure.magic = MagicWith(k, b) /\ b # FILE_HEADER_MAGIC[k]) => ~pure.valid

C14_Witness ==
    /\ pure.fn = "verify_magic"
    /\ \E k \in 1..6 : pure.magic = MagicWith(k, 255)
    /\ ~pure.valid

\* ------------------------------------------------------------ C15, C16

RECURSIVE Reached(_, _, _)
\* the chunk at which the loop of insert_offset_item, started at offset p,
\* stops following next_chunk: one with a free slot ("free"), a full one with
\* no next chunk ("last"); "unread" when the page cannot be read, "cycle" when
\* the chain leads back to a chunk already passed
Reached(f, p, seen) ==
    IF p \in seen THEN [ kind |-> "cycle", p |-> p ]
    ELSE IF p = INVALID_OFFSET \/ ~PageIn(f, p) THEN [ kind |-> "unread", p |-> p ]
    ELSE With(ChunkAt(f, p), LAMBDA c :
         IF c.nb_items < MAX_ITEMS THEN [ kind |-> "free", p |-> p ]
         ELSE IF c.next_chunk = INVALID_OFFSET THEN [ kind |-> "last", p |-> p ]
         ELSE Reached(f, c.next_chunk, seen \cup { p }))

\* the page offsets of a file
PagesOf(f) == { U64Of(k * PAGE_SIZE) : k \in 0..((U64ToNat(f.size) \div PAGE_SIZE) - 1) }

\* the page of f at q without the zeros it ends with
PageData(f, q) ==
    With(Meeting(f, q, PAGE_SIZE), LAMBDA meet :
    IF meet = {} THEN << >>
    ELSE With(f.segs[Latest(meet)], LAMBDA seg :
             IF seg.at = q /\ seg.len = PAGE_SIZE THEN seg.data
             ELSE Trimmed(FileBytes(f, q, PAGE_SIZE))))

\* files f and g hold the same bytes outside the pages of `changed`
SameOutside(f, g, changed) ==
    /\ g.size = f.size
    /\ \A q \in PagesOf(f) \ changed : PageData(g, q) = PageData(f, q)

\* this step is one call of insert_offset_item
InsertStep == ret'.op = "insert_offset_item" /\ (ret' # ret \/ done' # done)

AnyItems ==
    { ItemNo(done + 1), OffsetItemDefault, [ id |-> U64Of(7), offset |-> INVALID_OFFSET ] }

\* insert_offset_item called with any OffsetItem
InsertAnyOffsetItem ==
    /\ InsertItem(AnyItems)

NextItems == New \/ InsertAnyOffsetItem

SpecItems == InitRW /\ [][NextItems]_vars

\* a slot is populated when its offset is not the sentinel
Populated(c, i) == c.offset_items[i].offset # INVALID_OFFSET

C18_InsertReturns ==
    (ret.op = "insert_offset_item" /\ ret.offset # INVALID_OFFSET) => ret.res # "NoReturn"

\* ------------------------------------------------------------------ C19

\* the chain from base c0 is linked both ways and ends at the sentinel
LinkedBothWays(f, c0) ==
    With(ChainFrom(f, c0, {}), LAMBDA chain :
        /\ Len(chain) >= 1
        /\ ChunkAt(f, c0).previous_chunk = INVALID_OFFSET
        /\ \A i \in 1..Len(chain) :
              With(ChunkAt(f, chain[i]).next_chunk, LAMBDA q :
                  q # INVALID_OFFSET =>
                      /\ PageIn(f, q)
                      /\ ChunkAt(f, q).previous_chunk = chain[i])
        /\ ChunkAt(f, chain[Len(chain)]).next_chunk = INVALID_OFFSET)

InitLoadRW ==
    /\ open_mode = "read_write"
    /\ \/ /\ file \in { EnvFile(a, FILE_HEADER_MAGIC, "sparse") : a \in FirstEights }
          /\ prefill = [ b \in SectionBases |-> 0 ]
       \/ \E fill \in Prefills :
             /\ file = PrefilledImage(DefaultImage, fill, SectionBases)
             /\ prefill = fill
    /\ inserted = NothingInserted
    /\ InitCommon

\* engines built by new and by load, and their inserts
NextLoadRW == New \/ Load \/ InsertOffsetItem

SpecLoadRW == InitLoadRW /\ [][NextLoadRW]_vars

ChainPages(f, c0) == { ChainFrom(f, c0, {})[i] : i \in 1..Len(ChainFrom(f, c0, {})) }

MixedPrefills == [ SectionBases -> PrefillLevels ]

\* the program as written (File::open, read-only) over files at the path
\* whose chunks hold 0, 253 or 254 items
InitFull ==
    /\ open_mode = "read"
    /\ \E fill \in MixedPrefills :
          /\ file = PrefilledImage(DefaultImage, fill, SectionBases)
          /\ prefill = fill
    /\ inserted = NothingInserted
    /\ InitCommon

\* the caller gives up once MaxInserts pages have been taken from the allocator
\* (a failed insert does not count in `done`)
InsertWhileSpace ==
    /\ engine.live
    /\ U64Less(FooterOffset, U64Of((9 + MaxInserts) * PAGE_SIZE))
    /\ InsertItem({ i \in Items : i = ItemNo(done + 1) })

NextFull == WriteFile \/ New \/ Load \/ ReadOffsetTable \/ InsertWhileSpace \/ Close

SpecFull == InitFull /\ [][NextFull]_vars

\* every next_chunk of a chain of f names a page of f other than the page the
\* header names as the footer's
NoDanglingNext(f) ==
    \A p \in ChunkPages(f) :
        With(ChunkAt(f, p).next_chunk, LAMBDA q :
            q # INVALID_OFFSET =>
                /\ PageIn(f, q)
                /\ q # NexoraHeader_deserialize(FileBytes(f, U64Of(0), PAGE_SIZE)).footer_offset)

\* C22: an insert_offset_item that returns an error leaves header.footer_offset
\* as it was before the call and leaves no chunk of the file with a next_chunk
\* that names a page holding no chunk.
C22_FailureLeavesState ==
    [][ (InsertStep /\ ret'.res # "Ok") =>
          /\ FooterOffset' = FooterOffset
          /\ NoDanglingNext(file') ]_vars

\* ------------------------------------------------------------------ C23

\* this step is one call of read_offset_table
ReadStep == ret'.op = "read_offset_table" /\ (ret' # ret \/ engine' # engine)

====
